---- MODULE Spec2Model ----
\* Model of gen_redirects.py: a walk of the built blog tree that emits one
\* redirect stub per page directory into the site tree.
\*
\* Strings are sequences of one-character strings, filesystem paths are
\* sequences of path segments (each segment a string).  The blog tree and
\* the site tree are disjoint trees; filesystem I/O does not fail.
EXTENDS Integers, Sequences, FiniteSets, TLC

VARIABLES
    os_sep,         \* os.sep of the host: "/" or "\\"
    srcDirs,        \* directories under (and including) blog_root
    srcIndex,       \* those of srcDirs that directly contain index.html
    siteDirs,       \* directories under (and including) site_root
    siteFiles,      \* index.html files of the site tree: directory -> content
    arg_base,       \* args.base
    arg_exclude,    \* args.exclude (the raw strings)
    arg_overwrite,  \* args.overwrite
    arg_dry_run,    \* args.dry_run of the current invocation
    base,           \* local: the normalized base prefix
    exclude_set,    \* local: the normalized exclude set
    created,        \* local counter
    skipped,        \* local counter
    overwritten,    \* local counter
    pc,             \* "idle" (no invocation running) or "walk" (inside the loop)
    stack,          \* os.walk: directories still to be yielded, next one first
    printed,        \* the last per-directory line printed to the console
    console,        \* per finished invocation: the summary or the error printed
    before          \* the site tree as it was when the current invocation started

vars == <<os_sep, srcDirs, srcIndex, siteDirs, siteFiles, arg_base, arg_exclude,
          arg_overwrite, arg_dry_run, base, exclude_set, created, skipped,
          overwritten, pc, stack, printed, console, before>>

fsVars == <<os_sep, srcDirs, srcIndex>>
argVars == <<arg_base, arg_exclude, arg_overwrite>>

-----------------------------------------------------------------------------
\* Bounds of the model.

\* Most directories below blog_root (so no relative path has more segments).
MaxSrcDirs == 2
\* Most index.html files in the site tree before the first invocation.
MaxSiteFiles == 1
\* Longest --base string, in characters.
MaxBaseLen == 2
\* Most invocations of main() in one behaviour.
MaxRuns == 2

\* Directory names.
Names == {<<"a">>, <<"b">>}
\* Characters a --base string is made of.
BaseChars == {"/", "b"}

\* os.path.abspath(args.blog) and os.path.abspath(args.site), as segments.
blog_root == <<<<"blog">>, <<"public">>>>
site_root == <<<<"site">>>>

\* Content of an index.html that is in the site tree before the first run.
OldContent == <<"<html>home</html>">>

-----------------------------------------------------------------------------
\* Strings.

startswith(s, c) == Len(s) > 0 /\ s[1] = c
endswith(s, c) == Len(s) > 0 /\ s[Len(s)] = c

\* str.replace(old, new) for one-character old and new.
str_replace(s, old, new) == [i \in 1..Len(s) |-> IF s[i] = old THEN new ELSE s[i]]

RECURSIVE str_join(_, _)
\* sep.join(segs)
str_join(segs, sepc) ==
    IF segs = <<>> THEN <<>>
    ELSE IF Len(segs) = 1 THEN segs[1]
    ELSE segs[1] \o <<sepc>> \o str_join(Tail(segs), sepc)

RECURSIVE str_split(_, _)
\* s.split(sep): the segments of s between occurrences of sepc.
str_split(s, sepc) ==
    IF \A i \in 1..Len(s) : s[i] # sepc THEN <<s>>
    ELSE LET k == CHOOSE i \in 1..Len(s) :
                      s[i] = sepc /\ \A j \in 1..(i - 1) : s[j] # sepc
         IN <<SubSeq(s, 1, k - 1)>> \o str_split(SubSeq(s, k + 1, Len(s)), sepc)

\* All strings over chars of length at most n.
StringsUpTo(chars, n) == UNION {[1..k -> chars] : k \in 0..n}

-----------------------------------------------------------------------------
\* Paths and the filesystem.

IsPrefix(p, q) == Len(p) <= Len(q) /\ SubSeq(q, 1, Len(p)) = p

\* The path segments a path string resolves to ("." and "" name no segment).
path_segments(s) ==
    SelectSeq(str_split(s, os_sep), LAMBDA x : x # <<".">> /\ x # <<>>)

\* os.path.relpath(path, start) for a path at or below start.
os_path_relpath(path, start) ==
    IF path = start THEN <<".">>
    ELSE str_join(SubSeq(path, Len(start) + 1, Len(path)), os_sep)

\* os.path.join(root, rel) for a relative path string rel, resolved to segments.
os_path_join(root, rel) == root \o path_segments(rel)

\* os.path.isdir
os_path_isdir(dirs, path) == path \in dirs

\* os.path.exists for an index.html inside directory d of the site tree.
os_path_exists(files, d) == d \in DOMAIN files

\* os.makedirs(d, exist_ok=True) below an existing site_root.
os_makedirs(dirs, d) ==
    dirs \cup {SubSeq(d, 1, k) : k \in Len(site_root)..Len(d)}

\* Mutant of write_file: the file name is joined to site_root instead of the
\* redirect directory.
write_file_at_root(files, d, content) ==
    [x \in DOMAIN files \cup {site_root} |-> IF x = site_root THEN content ELSE files[x]]

\* open(file, "w").write(content) for the index.html inside directory d.
write_file(files, d, content) ==
    [x \in DOMAIN files \cup {d} |-> IF x = d THEN content ELSE files[x]]

\* The sub-directories of d that os.walk descends into.
SubDirs(d) == {c \in srcDirs : Len(c) = Len(d) + 1 /\ IsPrefix(d, c)}

\* The orders in which os.scandir may list a set of directories.
Orderings(S) ==
    {o \in [1..Cardinality(S) -> S] : \A i, j \in 1..Cardinality(S) : o[i] = o[j] => i = j}

-----------------------------------------------------------------------------
\* gen_redirects.py

\* REDIRECT_TEMPLATE: literal text and the {target} fields, in order.
Field == <<"{target}">>
REDIRECT_TEMPLATE ==
    << <<"<!DOCTYPE html><html lang=en><head><meta charset=UTF-8>">>,
       <<"<meta http-equiv=refresh content=0; url=">>, Field, <<">">>,
       <<"<link rel=canonical href=">>, Field, <<">">>,
       <<"<title>Redirecting...</title></head><body>">>,
       <<"<p>Redirecting to <a href=">>, Field, <<">">>, Field, <<"</a></p>">>,
       <<"</body></html>">> >>

RECURSIVE format_from(_, _, _)
format_from(tpl, i, target) ==
    IF i > Len(tpl) THEN <<>>
    ELSE (IF tpl[i] = Field THEN target ELSE tpl[i]) \o format_from(tpl, i + 1, target)

\* REDIRECT_TEMPLATE.format(target=target)
format(tpl, target) == format_from(tpl, 1, target)

is_index_at_root(dirpath, root) == dirpath = root

normalize_rel(rel) ==
    IF rel \in {<<".">>, <<>>} THEN <<>>
    ELSE str_replace(rel, os_sep, "/")

\* Mutant of normalize_base: the second test is an elif of the first.
normalize_base_elif(b) ==
    IF ~startswith(b, "/") THEN <<"/">> \o b
    ELSE IF ~endswith(b, "/") THEN b \o <<"/">>
    ELSE b

\* Lines 55-59: the base prefix with a leading and a trailing slash.
normalize_base(b) ==
    LET b1 == IF ~startswith(b, "/") THEN <<"/">> \o b ELSE b
    IN IF ~endswith(b1, "/") THEN b1 \o <<"/">> ELSE b1

\* Line 61.
make_exclude_set(excl) == {normalize_rel(x) : x \in excl}

\* Line 63.
blog_missing == ~os_path_isdir(srcDirs, blog_root)

\* Mutant of site_missing: the second check is left out.
site_missing_unchecked == FALSE

\* Line 66.
site_missing == ~os_path_isdir(siteDirs, site_root)

\* Mutant of is_excluded: an excluded path excludes what lies below it too.
is_excluded_with_descendants(rel_norm, excl) ==
    \E e \in excl : Len(e) <= Len(rel_norm) /\ SubSeq(rel_norm, 1, Len(e)) = e

\* Line 94.
is_excluded(rel_norm, excl) == rel_norm \in excl

\* Line 100.
target_url(b, rel_norm) == b \o rel_norm \o <<"/">>

\* Mutant of skip_existing: the flag is tested the wrong way round.
skip_existing_flag_inverted(redirect_dir) ==
    os_path_exists(siteFiles, redirect_dir) /\ arg_overwrite

\* Mutant of skip_existing: the flag is not tested.
skip_existing_any(redirect_dir) ==
    os_path_exists(siteFiles, redirect_dir)

\* Line 107: an existing file is left alone.
skip_existing(redirect_dir) ==
    os_path_exists(siteFiles, redirect_dir) /\ ~arg_overwrite

\* Mutant of do_write: the dry-run flag is not tested.
do_write_always == TRUE

\* Line 113: the write happens.
do_write == ~arg_dry_run

\* Mutant of count_as_overwritten: the existence test is negated.
count_as_overwritten_negated(files, redirect_dir) ==
    arg_overwrite /\ ~os_path_exists(files, redirect_dir)

\* Line 118, evaluated on the files as they are after lines 113-116.
count_as_overwritten(files, redirect_dir) ==
    arg_overwrite /\ os_path_exists(files, redirect_dir)

NoLine == [msg |-> "none", target |-> <<>>]

\* The locals of main() while no invocation runs.
LocalsReset ==
    /\ base' = <<>>
    /\ exclude_set' = {}
    /\ created' = 0
    /\ skipped' = 0
    /\ overwritten' = 0
    /\ stack' = <<>>
    /\ printed' = NoLine

\* Lines 44-72: main() up to the loop.
Invoke ==
    /\ pc = "idle"
    /\ Len(console) < MaxRuns
    /\ \E dry \in BOOLEAN : arg_dry_run' = dry
    /\ before' = [dirs |-> siteDirs, files |-> siteFiles]
    /\ IF blog_missing
       THEN /\ console' = Append(console, [kind |-> "error", what |-> "blog"])
            /\ LocalsReset
            /\ pc' = "idle"
       ELSE IF site_missing
       THEN /\ console' = Append(console, [kind |-> "error", what |-> "site"])
            /\ LocalsReset
            /\ pc' = "idle"
       ELSE /\ base' = normalize_base(arg_base)
            /\ exclude_set' = make_exclude_set(arg_exclude)
            /\ created' = 0
            /\ skipped' = 0
            /\ overwritten' = 0
            /\ stack' = <<blog_root>>
            /\ printed' = NoLine
            /\ pc' = "walk"
            /\ console' = console
    /\ UNCHANGED <<fsVars, argVars, siteDirs, siteFiles>>

\* Lines 76-123: the loop body for the directory os.walk yields.
Body(dirpath) ==
    LET relpath == os_path_relpath(dirpath, blog_root)
        rel_norm == normalize_rel(relpath)
        target == target_url(base, rel_norm)
        redirect_dir == os_path_join(site_root, relpath)
        content == format(REDIRECT_TEMPLATE, target)
        files2 == IF do_write THEN write_file(siteFiles, redirect_dir, content)
                  ELSE siteFiles
        dirs2 == IF do_write THEN os_makedirs(siteDirs, redirect_dir) ELSE siteDirs
    IN
    IF dirpath \notin srcIndex
    THEN UNCHANGED <<created, skipped, overwritten, siteDirs, siteFiles, printed>>
    ELSE IF is_index_at_root(dirpath, blog_root)
    THEN /\ printed' = [msg |-> "root", target |-> <<>>]
         /\ skipped' = skipped + 1
         /\ UNCHANGED <<created, overwritten, siteDirs, siteFiles>>
    ELSE IF rel_norm = <<>>
    THEN /\ printed' = [msg |-> "empty", target |-> <<>>]
         /\ skipped' = skipped + 1
         /\ UNCHANGED <<created, overwritten, siteDirs, siteFiles>>
    ELSE IF is_excluded(rel_norm, exclude_set)
    THEN /\ printed' = [msg |-> "excluded", target |-> <<>>]
         /\ skipped' = skipped + 1
         /\ UNCHANGED <<created, overwritten, siteDirs, siteFiles>>
    ELSE IF skip_existing(redirect_dir)
    THEN /\ printed' = [msg |-> "exists", target |-> target]
         /\ skipped' = skipped + 1
         /\ UNCHANGED <<created, overwritten, siteDirs, siteFiles>>
    ELSE /\ siteDirs' = dirs2
         /\ siteFiles' = files2
         /\ IF count_as_overwritten(files2, redirect_dir)
            THEN /\ printed' = [msg |-> "overwritten", target |-> target]
                 /\ overwritten' = overwritten + 1
                 /\ UNCHANGED created
            ELSE /\ printed' = [msg |-> "generated", target |-> target]
                 /\ created' = created + 1
                 /\ UNCHANGED overwritten
         /\ UNCHANGED skipped

\* Line 74 and the loop body: os.walk yields the next directory.
Visit ==
    /\ pc = "walk"
    /\ stack # <<>>
    /\ \E order \in Orderings(SubDirs(Head(stack))) :
           stack' = order \o Tail(stack)
    /\ Body(Head(stack))
    /\ UNCHANGED <<fsVars, argVars, arg_dry_run, base, exclude_set, pc, console, before>>

\* Lines 125-130: the walk is over, the summary is printed, main() returns.
Finish ==
    /\ pc = "walk"
    /\ stack = <<>>
    /\ console' = Append(console, [kind |-> "summary", created |-> created,
                                   overwritten |-> overwritten, skipped |-> skipped,
                                   dry_run |-> arg_dry_run])
    /\ LocalsReset
    /\ pc' = "idle"
    /\ UNCHANGED <<fsVars, argVars, arg_dry_run, siteDirs, siteFiles, before>>

Next == Invoke \/ Visit \/ Finish

-----------------------------------------------------------------------------
\* Initial states: the two trees and the command line.

\* Relative paths of at most MaxSrcDirs segments.
RelPaths == UNION {[1..k -> Names] : k \in 0..MaxSrcDirs}

\* Trees: prefix-closed sets of relative paths with at most n non-root members.
Trees(n) ==
    {t \in SUBSET RelPaths :
        /\ <<>> \in t
        /\ Cardinality(t) <= n + 1
        /\ \A p \in t : \A k \in 0..Len(p) : SubSeq(p, 1, k) \in t}

\* The trees in which no directory has two sub-directories.
Chains(n) ==
    {t \in Trees(n) : \A p, q \in t : Len(p) = Len(q) => p = q}

Rooted(root, t) == {root \o p : p \in t}

\* The directory of the site tree that mirrors directory d of the blog tree.
Mirror(d) == site_root \o SubSeq(d, Len(blog_root) + 1, Len(d))

\* The --exclude lists tried.
ExcludeLists ==
    {{}, {<<".">>}, {<<"a">>}, {<<"a", os_sep, "b">>}, {<<"a">>, <<"a", "/", "b">>}}

\* The site tree before the first invocation: absent, or site_root with at most
\* MaxSiteFiles index.html files, each in site_root or in the mirror of a blog
\* directory (main() looks at no other place), inside their directories.
InitSite ==
    \/ siteDirs = {} /\ siteFiles = << >>
    \/ \E D \in SUBSET ({site_root} \cup {Mirror(d) : d \in srcDirs}) :
          /\ Cardinality(D) <= MaxSiteFiles
          /\ siteFiles = [d \in D |-> OldContent]
          /\ siteDirs = {site_root} \cup
                          UNION {{SubSeq(d, 1, k) : k \in Len(site_root)..Len(d)} : d \in D}

InitWith(seps, bases, excludes, trees, allPages) ==
    /\ os_sep \in seps
    /\ srcDirs \in {{}} \cup {Rooted(blog_root, t) : t \in trees}
    /\ srcIndex \in (IF allPages THEN {srcDirs} ELSE SUBSET srcDirs)
    /\ InitSite
    /\ arg_base \in bases
    /\ arg_exclude \in excludes
    /\ arg_overwrite \in BOOLEAN
    /\ arg_dry_run = FALSE
    /\ base = <<>>
    /\ exclude_set = {}
    /\ created = 0
    /\ skipped = 0
    /\ overwritten = 0
    /\ pc = "idle"
    /\ stack = <<>>
    /\ printed = NoLine
    /\ console = <<>>
    /\ before = [dirs |-> siteDirs, files |-> siteFiles]

\* The default of --base.
DefaultBase == <<"/", "b", "l", "o", "g", "/">>

\* Every tree, every placement of the pages, every exclude list, both hosts.
Init == InitWith({"/", "\\"}, {DefaultBase}, ExcludeLists, Trees(MaxSrcDirs), FALSE)

Spec == Init /\ [][Next]_vars

\* Every --base string, over chains of directories that are all pages.
InitBase ==
    InitWith({"/", "\\"}, StringsUpTo(BaseChars, MaxBaseLen), {{}}, Chains(MaxSrcDirs), TRUE)

SpecBase == InitBase /\ [][Next]_vars

-----------------------------------------------------------------------------
\* Vocabulary of the properties.

\* The directory the loop body is about to process.
Cur == Head(stack)
AtDir == pc = "walk" /\ stack # <<>>

\* The forward-slash relative path of blog directory d.
RelOf(d) == str_join(SubSeq(d, Len(blog_root) + 1, Len(d)), "/")

\* The Exclude Set of the command line.
ExcludeSet == make_exclude_set(arg_exclude)

\* d is a qualifying page directory.
Qualifying(d) ==
    /\ d \in srcIndex
    /\ d # blog_root
    /\ RelOf(d) \notin ExcludeSet

\* The stub for target t: the text of the template with t in its four places.
StubFor(t) ==
    <<"<!DOCTYPE html><html lang=en><head><meta charset=UTF-8>",
      "<meta http-equiv=refresh content=0; url=">> \o t \o <<">",
      "<link rel=canonical href=">> \o t \o <<">",
      "<title>Redirecting...</title></head><body>",
      "<p>Redirecting to <a href=">> \o t \o <<">">> \o t \o <<"</a></p>",
      "</body></html>">>

\* The summaries of invocations i and i+1 are both printed, i+1 being the last
\* invocation finished, and no invocation is running.
LastTwo(i) ==
    /\ pc = "idle"
    /\ i >= 1
    /\ Len(console) = i + 1
    /\ console[i].kind = "summary"
    /\ console[i + 1].kind = "summary"

BothReal(i) == ~console[i].dry_run /\ ~console[i + 1].dry_run

-----------------------------------------------------------------------------
\* C1: without --overwrite, processing a qualifying page directory whose output
\* file already exists writes nothing and adds one to skipped only; and while
\* such a run is under way every file that was there before it has the content
\* it had.
C1_Step ==
    (AtDir /\ ~arg_overwrite /\ Qualifying(Cur) /\ Mirror(Cur) \in DOMAIN siteFiles)
        => /\ siteFiles' = siteFiles
           /\ siteDirs' = siteDirs
           /\ skipped' = skipped + 1
           /\ created' = created
           /\ overwritten' = overwritten
C1_Kept ==
    ~arg_overwrite =>
        \A f \in DOMAIN before.files :
            f \in DOMAIN siteFiles /\ siteFiles[f] = before.files[f]
C1_SkipExisting == [][C1_Step]_vars /\ []C1_Kept

\* An existing output file was met without --overwrite and skipped, in a real run.
C1_Witness ==
    /\ pc = "walk"
    /\ ~arg_overwrite
    /\ ~arg_dry_run
    /\ printed.msg = "exists"
    /\ skipped = 1 /\ created = 0 /\ overwritten = 0
    /\ siteFiles = before.files
    /\ \E d \in srcIndex : d # blog_root /\ Mirror(d) \in DOMAIN siteFiles

\* C2 (as claimed): in a real run, processing a qualifying page directory whose
\* output file does not exist writes the file and adds one to created and
\* nothing to overwritten, with or without --overwrite.
C2_Step ==
    (AtDir /\ ~arg_dry_run /\ Qualifying(Cur) /\ Mirror(Cur) \notin DOMAIN siteFiles)
        => /\ Mirror(Cur) \in DOMAIN siteFiles'
           /\ created' = created + 1
           /\ overwritten' = overwritten
C2_CreateAbsent == [][C2_Step]_vars

\* C3 (as claimed): a dry run followed by a real run with the same arguments
\* on the same trees prints the same three counts.
C3_DryRunCounts ==
    \A i \in 1..(Len(console) - 1) :
        (/\ console[i].kind = "summary" /\ console[i].dry_run
         /\ console[i + 1].kind = "summary" /\ ~console[i + 1].dry_run)
            => /\ console[i].created = console[i + 1].created
               /\ console[i].overwritten = console[i + 1].overwritten
               /\ console[i].skipped = console[i + 1].skipped

\* C4: during and after a dry run the site tree (directories, files, contents)
\* is the tree the run started with.
C4_DryRunFrame ==
    arg_dry_run => siteDirs = before.dirs /\ siteFiles = before.files

\* A dry run with --overwrite has finished, having classified one directory as
\* overwritten and one as created.
C4_Witness ==
    /\ pc = "idle"
    /\ arg_dry_run
    /\ arg_overwrite
    /\ Len(console) >= 1
    /\ console[Len(console)].kind = "summary"
    /\ console[Len(console)].dry_run
    /\ console[Len(console)].overwritten = 1
    /\ console[Len(console)].created = 1

\* C5: after a real run that started with an empty site_root, a blog directory has
\* its index.html mirrored in the site tree exactly when it is a qualifying page
\* directory; and the index.html of site_root itself is never written, in any run.
C5_StubsIffQualifying ==
    /\ (/\ pc = "idle"
        /\ Len(console) >= 1
        /\ console[Len(console)].kind = "summary"
        /\ ~console[Len(console)].dry_run
        /\ before.dirs = {site_root}
        /\ before.files = << >>)
           => \A d \in srcDirs : Mirror(d) \in DOMAIN siteFiles <=> Qualifying(d)
    /\ site_root \in DOMAIN siteFiles => siteFiles[site_root] = OldContent

\* The run over index.html, a/index.html and a/b/index.html with --exclude a
\* has ended: a/b alone has its stub.
C5_Witness ==
    LET a == blog_root \o << <<"a">> >>
        ab == blog_root \o << <<"a">>, <<"b">> >>
    IN /\ pc = "idle"
       /\ Len(console) >= 1
       /\ console[Len(console)].kind = "summary"
       /\ ~console[Len(console)].dry_run
       /\ before.files = << >>
       /\ srcIndex = {blog_root, a, ab}
       /\ arg_exclude = {<<"a">>}
       /\ DOMAIN siteFiles = {Mirror(ab)}
       /\ console[Len(console)].skipped = 2

\* C6: while a run walks, the base prefix starts and ends with "/"; and every
\* file of the site tree that is not one of the files that were there from the
\* start is the stub of the directory it mirrors, with the target
\* normalized base + forward-slash relative path + "/" in each place.
C6_Target ==
    /\ pc = "walk" =>
          /\ Len(base) >= 1
          /\ base[1] = "/"
          /\ base[Len(base)] = "/"
          /\ base \in {arg_base, <<"/">> \o arg_base, arg_base \o <<"/">>,
                       <<"/">> \o arg_base \o <<"/">>}
    /\ \A f \in DOMAIN siteFiles :
          \/ siteFiles[f] = OldContent
          \/ \E d \in srcIndex :
                /\ f = Mirror(d)
                /\ pc = "walk" =>
                      siteFiles[f] = StubFor(base \o RelOf(d) \o <<"/">>)
                /\ siteFiles[f] = StubFor(normalize_base(arg_base) \o RelOf(d) \o <<"/">>)
                /\ arg_base = <<"b">> =>
                      siteFiles[f] = StubFor(<<"/", "b", "/">> \o RelOf(d) \o <<"/">>)

\* On a host whose separator is the backslash, --base b has given the page
\* a/b (or b/a, ...) a stub whose target is /b/a/b/.
C6_Witness ==
    /\ os_sep = "\\"
    /\ arg_base = <<"b">>
    /\ pc = "walk"
    /\ \E d \in srcIndex :
          /\ Len(d) = Len(blog_root) + 2
          /\ Mirror(d) \in DOMAIN siteFiles
          /\ printed.target = <<"/", "b", "/">> \o RelOf(d) \o <<"/">>
          /\ siteFiles[Mirror(d)] = StubFor(printed.target)

\* C7 (as claimed): after two consecutive real runs with --overwrite the files
\* are those the first run left, the second run created nothing, and the second
\* run's overwritten count is the first run's created count.
C7_Idempotent ==
    \A i \in 1..(Len(console) - 1) :
        (LastTwo(i) /\ BothReal(i) /\ arg_overwrite)
            => /\ siteFiles = before.files
               /\ console[i + 1].created = 0
               /\ console[i + 1].overwritten = console[i].created

\* C7 (amended): ... and the second run's overwritten count is the first run's
\* created count plus the first run's overwritten count.
C7_IdempotentAmended ==
    \A i \in 1..(Len(console) - 1) :
        (LastTwo(i) /\ BothReal(i) /\ arg_overwrite)
            => /\ siteFiles = before.files
               /\ siteDirs = before.dirs
               /\ console[i + 1].created = 0
               /\ console[i + 1].overwritten =
                      console[i].created + console[i].overwritten

\* Two real runs with --overwrite have ended; the first found one of its two
\* output files in place already.
C7_Witness ==
    /\ LastTwo(1) /\ BothReal(1) /\ arg_overwrite
    /\ console[2].overwritten = 2
    /\ \E f \in DOMAIN siteFiles : f # site_root /\ siteFiles[f] # OldContent

\* C8 (as claimed): after two consecutive real runs without --overwrite the
\* second run's skipped count is the first run's created plus overwritten
\* count, and the second run changed nothing in the site tree.
C8_SecondRunSkips ==
    \A i \in 1..(Len(console) - 1) :
        (LastTwo(i) /\ BothReal(i) /\ ~arg_overwrite)
            => /\ console[i + 1].skipped = console[i].created + console[i].overwritten
               /\ siteFiles = before.files
               /\ siteDirs = before.dirs

\* C8 (amended): ... the second run's skipped count is the first run's created
\* plus overwritten plus skipped count, and the second run changed nothing.
C8_SecondRunSkipsAmended ==
    \A i \in 1..(Len(console) - 1) :
        (LastTwo(i) /\ BothReal(i) /\ ~arg_overwrite)
            => /\ console[i + 1].skipped =
                      console[i].created + console[i].overwritten + console[i].skipped
               /\ console[i + 1].created = 0
               /\ console[i + 1].overwritten = 0
               /\ siteFiles = before.files
               /\ siteDirs = before.dirs

\* Two real runs without --overwrite have ended; the first created a stub and
\* skipped a directory.
C8_Witness ==
    /\ LastTwo(1) /\ BothReal(1) /\ ~arg_overwrite
    /\ console[1].created >= 1
    /\ console[1].skipped >= 1
    /\ console[2].skipped = console[1].created + console[1].skipped

\* C9: in a real run with --overwrite, processing a qualifying page directory
\* whose output file exists replaces the file by the stub for the target of
\* this run and adds one to overwritten only.
C9_Step ==
    (AtDir /\ arg_overwrite /\ ~arg_dry_run /\ Qualifying(Cur)
           /\ Mirror(Cur) \in DOMAIN siteFiles)
        => /\ Mirror(Cur) \in DOMAIN siteFiles'
           /\ siteFiles'[Mirror(Cur)] = StubFor(base \o RelOf(Cur) \o <<"/">>)
           /\ \A f \in DOMAIN siteFiles : f # Mirror(Cur) =>
                 f \in DOMAIN siteFiles' /\ siteFiles'[f] = siteFiles[f]
           /\ overwritten' = overwritten + 1
           /\ created' = created
           /\ skipped' = skipped
C9_OverwriteExisting == [][C9_Step]_vars

\* A file that was in the site tree before a real --overwrite run has been
\* replaced by a stub.
C9_Witness ==
    /\ pc = "walk"
    /\ arg_overwrite
    /\ ~arg_dry_run
    /\ printed.msg = "overwritten"
    /\ overwritten = 1
    /\ \E f \in DOMAIN before.files :
          /\ before.files[f] = OldContent
          /\ siteFiles[f] = StubFor(printed.target)

\* C10: if blog_root or site_root is not a directory, no invocation ever walks,
\* the site tree stays as it was, and every invocation ends having printed the
\* diagnostic and no summary.
C10_MissingRoot ==
    (blog_root \notin srcDirs \/ site_root \notin siteDirs) =>
        /\ pc = "idle"
        /\ stack = <<>>
        /\ printed = NoLine
        /\ siteDirs = before.dirs
        /\ siteFiles = before.files
        /\ \A i \in 1..Len(console) : console[i].kind = "error"

\* An invocation has ended on the diagnostic for a missing site directory,
\* the blog tree having a page to redirect.
C10_Witness ==
    /\ pc = "idle"
    /\ Len(console) >= 1
    /\ console[1] = [kind |-> "error", what |-> "site"]
    /\ siteDirs = {}
    /\ \E d \in srcIndex : d # blog_root

====
